---- MODULE Spec2Model ----
(***************************************************************************)
(* Model of the transaction core of miden-base:                            *)
(*   - the kernel event codec   (miden-lib/src/transaction/events.rs)      *)
(*   - the transaction verifier (miden-tx/src/verifier/mod.rs)             *)
(*   - the transaction executor (miden-tx/src/executor/mod.rs)             *)
(* Three specifications share the variables: SpecEvents, SpecVerifier and  *)
(* Spec (the executor).  Each moves only its own component.                *)
(***************************************************************************)
EXTENDS Integers, Sequences, FiniteSets, TLC

VARIABLES
  \* event codec
  ev_src,          \* where ev_value came from: an encoded event, or "raw"
  ev_value,        \* the u32 handed to try_from
  ev_result,       \* result of try_from
  \* verifier
  v_pc,            \* position inside TransactionVerifier::verify
  v_required,      \* self.proof_security_level
  v_stacks,        \* whether stack inputs / outputs were rebuilt
  v_proof,         \* what miden_verifier::verify returned
  v_policy,        \* whether the security-level comparison was evaluated
  v_result,        \* result of TransactionVerifier::verify
  \* executor
  pc,              \* position inside execute_transaction
  steps,           \* the steps performed by the current call, in order
  account_id,      \* argument of execute_transaction
  tx_inputs,       \* fetched TransactionInputs
  program,         \* compiled transaction program
  vm_storage,      \* account storage as mutated by the running kernel
  vm_ops,          \* number of kernel operations performed by the run
  vault,           \* the host's vault delta accumulator
  stack_outputs,   \* what the VM left on the stack
  tx_outputs,      \* parsed TransactionOutputs
  storage_delta,   \* result of extract_account_storage_delta
  nonce_delta,     \* the nonce delta computed for the account delta
  outcome          \* what execute_transaction ended with

ev_vars == <<ev_src, ev_value, ev_result>>
v_vars == <<v_pc, v_required, v_stacks, v_proof, v_policy, v_result>>
ex_vars == <<pc, steps, account_id, tx_inputs, program, vm_storage, vm_ops, vault,
             stack_outputs, tx_outputs, storage_delta, nonce_delta, outcome>>
vars == <<ev_vars, v_vars, ex_vars>>

Unset == [tag |-> "Unset"]
None == [tag |-> "None"]
Some(x) == [tag |-> "Some", val |-> x]
Ok(x) == [tag |-> "Ok", val |-> x]
Err(k, d) == [tag |-> "Err", kind |-> k, data |-> d]

(***************************************************************************)
(* Bounds                                                                  *)
(***************************************************************************)
MaxPrefix == 3      \* upper 16 bits sampled: 0..MaxPrefix and 0x7FFF
MaxLow == 20        \* lower 16 bits sampled: 0..MaxLow and 0xFFFF
MaxLevel == 8       \* security levels sampled: 0..MaxLevel
MaxNonce == 2       \* nonces sampled: 0..MaxNonce
MaxOps == 2         \* kernel operations per VM run

(***************************************************************************)
(* Event codec: miden-lib/src/transaction/events.rs                        *)
(***************************************************************************)
TransactionEvents ==
  {"AddAssetToAccountVault", "RemoveAssetFromAccountVault", "PushAccountProcedureIndex"}

EVENT_ID_PREFIX == 2

\* u32 right shift by 16 bits
Shr16(value) == value \div 65536

\* the u32 inputs the codec is exercised on (TLC's integers end at 2^31 - 1)
U32Sample ==
  {hi * 65536 + lo : hi \in (0..MaxPrefix) \cup {32767}, lo \in (0..MaxLow) \cup {65535}}

\* a plausible slip: the second and third discriminants collide
EncodeDup(e) ==
  CASE e = "AddAssetToAccountVault" -> 131072
    [] e = "RemoveAssetFromAccountVault" -> 131073
    [] e = "PushAccountProcedureIndex" -> 131073

\* #[repr(u32)] discriminants: `event as u32`
Encode(e) ==
  CASE e = "AddAssetToAccountVault" -> 131072
    [] e = "RemoveAssetFromAccountVault" -> 131073
    [] e = "PushAccountProcedureIndex" -> 131074

\* a plausible slip: the prefix check is forgotten, only the table is matched
TryFromU32NoPrefix(value) ==
  CASE value = 131072 -> Ok("AddAssetToAccountVault")
    [] value = 131073 -> Ok("RemoveAssetFromAccountVault")
    [] value = 131074 -> Ok("PushAccountProcedureIndex")
    [] OTHER -> Err("InvalidTransactionEvent", value)

\* impl TryFrom<u32> for TransactionEvent
TryFromU32(value) ==
  IF Shr16(value) # EVENT_ID_PREFIX
    THEN Err("NotTransactionEvent", value)
    ELSE CASE value = 131072 -> Ok("AddAssetToAccountVault")
           [] value = 131073 -> Ok("RemoveAssetFromAccountVault")
           [] value = 131074 -> Ok("PushAccountProcedureIndex")
           [] OTHER -> Err("InvalidTransactionEvent", value)

\* the kernel emits an event: its id is the event's discriminant
EmitEvent ==
  /\ \E e \in TransactionEvents :
       /\ ev_src' = e
       /\ ev_value' = Encode(e)
  /\ ev_result' = None
  /\ UNCHANGED <<v_vars, ex_vars>>

\* an arbitrary 32-bit event id reaches the host
EmitRaw ==
  /\ \E v \in U32Sample :
       /\ ev_src' = "raw"
       /\ ev_value' = v
  /\ ev_result' = None
  /\ UNCHANGED <<v_vars, ex_vars>>

\* TransactionEvent::try_from(value)
DecodeEvent ==
  /\ ev_src # "none"
  /\ ev_result = None
  /\ ev_result' = Some(TryFromU32(ev_value))
  /\ UNCHANGED <<ev_src, ev_value, v_vars, ex_vars>>

(***************************************************************************)
(* Verifier: miden-tx/src/verifier/mod.rs                                  *)
(***************************************************************************)
SecurityLevels == 0..MaxLevel
VerificationErrors == {"ProgramVerificationError", "InputNotFieldElement"}

\* what miden_verifier::verify can return: the achieved level, or an error
ProofResults ==
  {Ok(s) : s \in SecurityLevels} \cup {Err("VerificationError", e) : e \in VerificationErrors}

\* a plausible slip: the boundary level is rejected
InsufficientInclusive(achieved, required) == achieved <= required

\* line 57: proof_security_level < self.proof_security_level
Insufficient(achieved, required) == achieved < required

\* TransactionVerifier::new(proof_security_level)
VerifierNew ==
  /\ v_pc = "unbuilt"
  /\ \E r \in SecurityLevels : v_required' = r
  /\ v_pc' = "ready"
  /\ UNCHANGED <<v_stacks, v_proof, v_policy, v_result, ev_vars, ex_vars>>

\* verify, lines 34-45: rebuild the kernel's stack inputs and outputs
BuildStacks ==
  /\ v_pc = "ready"
  /\ v_stacks' = TRUE
  /\ v_proof' = None
  /\ v_policy' = FALSE
  /\ v_result' = None
  /\ v_pc' = "prove"
  /\ UNCHANGED <<v_required, ev_vars, ex_vars>>

\* a plausible slip: a rejected proof is treated as a proof of level 0
VerifyProofLenient ==
  /\ v_pc = "prove"
  /\ \E res \in ProofResults :
       /\ v_proof' = Some(res)
       /\ v_pc' = "policy"
       /\ v_result' = None
  /\ UNCHANGED <<v_required, v_stacks, v_policy, ev_vars, ex_vars>>

\* verify, lines 47-54: the proof system's answer; `?` returns its error
VerifyProof ==
  /\ v_pc = "prove"
  /\ \E res \in ProofResults :
       /\ v_proof' = Some(res)
       /\ IF res.tag = "Err"
            THEN /\ v_result' = Some(Err("TransactionVerificationFailed", res.data))
                 /\ v_pc' = "returned"
            ELSE /\ v_result' = None
                 /\ v_pc' = "policy"
  /\ UNCHANGED <<v_required, v_stacks, v_policy, ev_vars, ex_vars>>

\* the level the policy check reads
AchievedLevel == IF v_proof.val.tag = "Ok" THEN v_proof.val.val ELSE 0

\* verify, lines 56-64: the security level check and the final Ok(())
CheckSecurityLevel ==
  /\ v_pc = "policy"
  /\ v_policy' = TRUE
  /\ v_result' =
       IF Insufficient(AchievedLevel, v_required)
         THEN Some(Err("InsufficientProofSecurityLevel", <<AchievedLevel, v_required>>))
         ELSE Some(Ok("unit"))
  /\ v_pc' = "returned"
  /\ UNCHANGED <<v_required, v_stacks, v_proof, ev_vars, ex_vars>>

\* verify takes &self: the verifier is ready for the next call
VerifyAgain ==
  /\ v_pc = "returned"
  /\ v_pc' = "ready"
  /\ UNCHANGED <<v_required, v_stacks, v_proof, v_policy, v_result, ev_vars, ex_vars>>

(***************************************************************************)
(* Executor: miden-tx/src/executor/mod.rs                                  *)
(***************************************************************************)
AccountIds == {"acct1", "acct2"}
Nonces == 0..MaxNonce
Assets == {"asset"}

\* AccountStorage::STORAGE_TREE_DEPTH
STORAGE_TREE_DEPTH == 8

\* the leaf indices (u64) of the storage tree the model follows
SlotSample == {0, 127, 255}
EmptyWord == "EMPTY_WORD"
Words == {"v1", "v2"}

\* the storage tree's leaves
Storages == [SlotSample -> Words \cup {EmptyWord}]

\* a root commits to the leaves of its tree (no collisions)
Root(storage) == [tag |-> "root", leaves |-> storage]

\* a root the run never recorded in the merkle store
UnknownRoot == Root([i \in SlotSample |-> "unrecorded"])

\* crypto::merkle::merkle_tree_delta: the leaves of root_2 that differ from root_1
MerkleTreeDelta(root_1, root_2, depth, store) ==
  IF root_1 \notin store \/ root_2 \notin store
    THEN Err("MerkleError", "RootNotInStore")
    ELSE LET idx == {i \in SlotSample : i < 2 ^ depth}
             changed == {i \in idx : root_1.leaves[i] # root_2.leaves[i]}
         IN Ok([cleared_slots |-> {i \in changed : root_2.leaves[i] = EmptyWord},
                updated_slots |-> {<<i, root_2.leaves[i]>> :
                                     i \in {j \in changed : root_2.leaves[j] # EmptyWord}}])

\* a plausible slip: the index is cast to a 7-bit value
AsU8Narrow(idx) == idx % 128

\* `*idx as u8`
AsU8(idx) == idx % 256

\* a plausible slip: the cleared slots are never collected
ExtractAccountStorageDeltaNoCleared(store, initial_account, final_account_stub) ==
  LET tree_delta == MerkleTreeDelta(Root(initial_account.storage),
                                    final_account_stub.storage_root,
                                    STORAGE_TREE_DEPTH, store)
  IN IF tree_delta.tag = "Err"
       THEN Err("ExtractAccountStorageSlotsDeltaFailed", tree_delta.data)
       ELSE Ok([cleared_items |-> {},
                updated_items |-> {<<AsU8(p[1]), p[2]>> : p \in tree_delta.val.updated_slots}])

\* extract_account_storage_delta
ExtractAccountStorageDelta(store, initial_account, final_account_stub) ==
  LET tree_delta == MerkleTreeDelta(Root(initial_account.storage),
                                    final_account_stub.storage_root,
                                    STORAGE_TREE_DEPTH, store)
  IN IF tree_delta.tag = "Err"
       THEN Err("ExtractAccountStorageSlotsDeltaFailed", tree_delta.data)
       ELSE Ok([cleared_items |-> {AsU8(i) : i \in tree_delta.val.cleared_slots},
                updated_items |-> {<<AsU8(p[1]), p[2]>> : p \in tree_delta.val.updated_slots}])

\* a plausible slip: the delta carries the increment instead of the new nonce
NonceDeltaDifference(initial_account, final_account) ==
  IF initial_account.nonce # final_account.nonce
    THEN Some(final_account.nonce - initial_account.nonce)
    ELSE None

\* lines 242-246: Some(final nonce) when the nonce changed
NonceDelta(initial_account, final_account) ==
  IF initial_account.nonce # final_account.nonce
    THEN Some(final_account.nonce)
    ELSE None

\* host.into_parts(): the accumulated vault delta
VaultDelta(acc) ==
  [added_assets |-> {<<a, acc[a]>> : a \in {b \in Assets : acc[b] > 0}},
   removed_assets |-> {<<a, 0 - acc[a]>> : a \in {b \in Assets : acc[b] < 0}}]

\* the slots a storage delta updates
UpdatedSlots(delta) == {p[1] : p \in delta.updated_items}

\* AccountDelta::new always rejects a slot that is both cleared and updated
SelfContradictory(delta) == delta.cleared_items \cap UpdatedSlots(delta) # {}

\* a delta that changes nothing
EmptyDelta(storage, vault_delta) ==
  /\ storage.cleared_items = {}
  /\ storage.updated_items = {}
  /\ vault_delta.added_assets = {}
  /\ vault_delta.removed_assets = {}

\* the results AccountDelta::new can give: an overlap is always rejected; an empty
\* delta without a new nonce and a change that comes with a new nonce are
\* accepted; for a change without a new nonce, or a new nonce without a change,
\* the answer is the callee's
AccountDeltaNewResults(storage, vault_delta, nonce) ==
  IF SelfContradictory(storage) THEN {"Err"}
  ELSE IF EmptyDelta(storage, vault_delta) <=> nonce = None THEN {"Ok"}
  ELSE {"Ok", "Err"}

\* the merkle store of the finalized advice recorder: the initial tree and the
\* tree the kernel left
Store == {Root(tx_inputs.account.storage), Root(vm_storage)}

\* the stack outputs a run can leave: a final account stub, or words that do not
\* parse into one
StackOutputs ==
  {[tag |-> "Malformed"]} \cup
  {[tag |-> "Stub", id |-> i, nonce |-> n, storage_root |-> r] :
     i \in AccountIds, n \in Nonces, r \in {Root(vm_storage), UnknownRoot}}

\* execute_transaction is called
ExecuteTransaction ==
  /\ pc = "idle"
  /\ \E id \in AccountIds : account_id' = id
  /\ pc' = "fetch"
  /\ UNCHANGED <<steps, tx_inputs, program, vm_storage, vm_ops, vault, stack_outputs,
                 tx_outputs, storage_delta, nonce_delta, outcome, ev_vars, v_vars>>

\* a plausible slip: the fetch error is recorded but the call goes on
FetchTransactionInputsNoAbort ==
  /\ pc = "fetch"
  /\ steps' = Append(steps, "fetch")
  /\ \/ /\ outcome' = Err("FetchTransactionInputsFailed", "DataStoreError")
        /\ pc' = "compile"
        /\ UNCHANGED tx_inputs
     \/ /\ \E n \in Nonces, st \in Storages :
             tx_inputs' = [account |-> [id |-> account_id, nonce |-> n, storage |-> st]]
        /\ pc' = "compile"
        /\ UNCHANGED outcome
  /\ UNCHANGED <<account_id, program, vm_storage, vm_ops, vault, stack_outputs,
                 tx_outputs, storage_delta, nonce_delta, ev_vars, v_vars>>

\* prepare_transaction, lines 186-189: data_store.get_transaction_inputs
FetchTransactionInputs ==
  /\ pc = "fetch"
  /\ steps' = Append(steps, "fetch")
  /\ \/ /\ outcome' = Err("FetchTransactionInputsFailed", "DataStoreError")
        /\ pc' = "done"
        /\ UNCHANGED tx_inputs
     \/ /\ \E n \in Nonces, st \in Storages :
             tx_inputs' = [account |-> [id |-> account_id, nonce |-> n, storage |-> st]]
        /\ pc' = "compile"
        /\ UNCHANGED outcome
  /\ UNCHANGED <<account_id, program, vm_storage, vm_ops, vault, stack_outputs,
                 tx_outputs, storage_delta, nonce_delta, ev_vars, v_vars>>

\* prepare_transaction, lines 191-200: compiler.compile_transaction
CompileTransaction ==
  /\ pc = "compile"
  /\ steps' = Append(steps, "compile")
  /\ \/ /\ outcome' = Err("CompileTransactionFiled", "AssemblyError")
        /\ pc' = "done"
        /\ UNCHANGED program
     \/ /\ program' = [tag |-> "Program", account |-> account_id]
        /\ pc' = "kernel_inputs"
        /\ UNCHANGED outcome
  /\ UNCHANGED <<account_id, tx_inputs, vm_storage, vm_ops, vault, stack_outputs,
                 tx_outputs, storage_delta, nonce_delta, ev_vars, v_vars>>

\* execute_transaction, lines 145-149: a fresh recorder and host, and the VM starts
StartVm ==
  /\ pc = "kernel_inputs"
  /\ steps' = Append(steps, "vm")
  /\ vm_storage' = tx_inputs.account.storage
  /\ vault' = [a \in Assets |-> 0]
  /\ vm_ops' = 0
  /\ pc' = "vm"
  /\ UNCHANGED <<account_id, tx_inputs, program, stack_outputs, tx_outputs,
                 storage_delta, nonce_delta, outcome, ev_vars, v_vars>>

\* the kernel writes a storage slot (the empty word clears it)
VmSetItem ==
  /\ pc = "vm"
  /\ vm_ops < MaxOps
  /\ \E i \in SlotSample, w \in Words \cup {EmptyWord} :
       vm_storage' = [vm_storage EXCEPT ![i] = w]
  /\ vm_ops' = vm_ops + 1
  /\ UNCHANGED <<pc, steps, account_id, tx_inputs, program, vault, stack_outputs,
                 tx_outputs, storage_delta, nonce_delta, outcome, ev_vars, v_vars>>

\* the kernel emits AddAssetToAccountVault: the host credits the asset
VmAddAsset ==
  /\ pc = "vm"
  /\ vm_ops < MaxOps
  /\ \E a \in Assets : vault' = [vault EXCEPT ![a] = @ + 1]
  /\ vm_ops' = vm_ops + 1
  /\ UNCHANGED <<pc, steps, account_id, tx_inputs, program, vm_storage, stack_outputs,
                 tx_outputs, storage_delta, nonce_delta, outcome, ev_vars, v_vars>>

\* the kernel emits RemoveAssetFromAccountVault: the host debits the asset
VmRemoveAsset ==
  /\ pc = "vm"
  /\ vm_ops < MaxOps
  /\ \E a \in Assets : vault' = [vault EXCEPT ![a] = @ - 1]
  /\ vm_ops' = vm_ops + 1
  /\ UNCHANGED <<pc, steps, account_id, tx_inputs, program, vm_storage, stack_outputs,
                 tx_outputs, storage_delta, nonce_delta, outcome, ev_vars, v_vars>>

\* execute_transaction, line 155: the run faults
VmFault ==
  /\ pc = "vm"
  /\ outcome' = Err("ExecuteTransactionProgramFailed", "ExecutionError")
  /\ pc' = "done"
  /\ UNCHANGED <<steps, account_id, tx_inputs, program, vm_storage, vm_ops, vault,
                 stack_outputs, tx_outputs, storage_delta, nonce_delta, ev_vars, v_vars>>

\* execute_transaction, lines 149-165: the run completes with its stack outputs
VmFinish ==
  /\ pc = "vm"
  /\ \E so \in StackOutputs : stack_outputs' = so
  /\ pc' = "parse"
  /\ UNCHANGED <<steps, account_id, tx_inputs, program, vm_storage, vm_ops, vault,
                 tx_outputs, storage_delta, nonce_delta, outcome, ev_vars, v_vars>>

\* build_executed_transaction, lines 215-223: parse_transaction_outputs
ParseTransactionOutputs ==
  /\ pc = "parse"
  /\ steps' = Append(steps, "parse")
  /\ IF stack_outputs.tag = "Malformed"
       THEN /\ outcome' = Err("InvalidTransactionOutput", "TransactionOutputError")
            /\ pc' = "done"
            /\ UNCHANGED tx_outputs
       ELSE /\ tx_outputs' = [account |-> [id |-> stack_outputs.id,
                                           nonce |-> stack_outputs.nonce,
                                           storage_root |-> stack_outputs.storage_root]]
            /\ pc' = "check_id"
            /\ UNCHANGED outcome
  /\ UNCHANGED <<account_id, tx_inputs, program, vm_storage, vm_ops, vault,
                 stack_outputs, storage_delta, nonce_delta, ev_vars, v_vars>>

\* a plausible slip: the two ids are reported in each other's field
CheckAccountIdSwapped ==
  /\ pc = "check_id"
  /\ steps' = Append(steps, "check_id")
  /\ IF tx_inputs.account.id # tx_outputs.account.id
       THEN /\ outcome' = Err("InconsistentAccountId",
                              [input_id |-> tx_outputs.account.id,
                               output_id |-> tx_inputs.account.id])
            /\ pc' = "done"
       ELSE /\ pc' = "extract"
            /\ UNCHANGED outcome
  /\ UNCHANGED <<account_id, tx_inputs, program, vm_storage, vm_ops, vault,
                 stack_outputs, tx_outputs, storage_delta, nonce_delta, ev_vars, v_vars>>

\* build_executed_transaction, lines 225-232: the account id check
CheckAccountId ==
  /\ pc = "check_id"
  /\ steps' = Append(steps, "check_id")
  /\ IF tx_inputs.account.id # tx_outputs.account.id
       THEN /\ outcome' = Err("InconsistentAccountId",
                              [input_id |-> tx_inputs.account.id,
                               output_id |-> tx_outputs.account.id])
            /\ pc' = "done"
       ELSE /\ pc' = "extract"
            /\ UNCHANGED outcome
  /\ UNCHANGED <<account_id, tx_inputs, program, vm_storage, vm_ops, vault,
                 stack_outputs, tx_outputs, storage_delta, nonce_delta, ev_vars, v_vars>>

\* build_executed_transaction, lines 236-239: the storage delta
ExtractStorageDelta ==
  /\ pc = "extract"
  /\ steps' = Append(steps, "extract")
  /\ LET r == ExtractAccountStorageDelta(Store, tx_inputs.account, tx_outputs.account)
     IN IF r.tag = "Err"
          THEN /\ outcome' = Err("InvalidTransactionOutput", r.kind)
               /\ pc' = "done"
               /\ UNCHANGED storage_delta
          ELSE /\ storage_delta' = r.val
               /\ pc' = "delta"
               /\ UNCHANGED outcome
  /\ UNCHANGED <<account_id, tx_inputs, program, vm_storage, vm_ops, vault,
                 stack_outputs, tx_outputs, nonce_delta, ev_vars, v_vars>>

\* build_executed_transaction, lines 241-259: the nonce delta, AccountDelta::new
\* unwrapped with expect, and the ExecutedTransaction
BuildAccountDelta ==
  /\ pc = "delta"
  /\ steps' = Append(steps, "delta")
  /\ nonce_delta' = NonceDelta(tx_inputs.account, tx_outputs.account)
  /\ \E res \in AccountDeltaNewResults(storage_delta, VaultDelta(vault), nonce_delta') :
       IF res = "Err"
         THEN outcome' = [tag |-> "Panic", msg |-> "invalid account delta"]
         ELSE outcome' = Ok([program |-> program,
                             tx_inputs |-> tx_inputs,
                             tx_outputs |-> tx_outputs,
                             account_delta |-> [storage |-> storage_delta,
                                                vault |-> VaultDelta(vault),
                                                nonce |-> nonce_delta']])
  /\ pc' = "done"
  /\ UNCHANGED <<account_id, tx_inputs, program, vm_storage, vm_ops, vault,
                 stack_outputs, tx_outputs, storage_delta, ev_vars, v_vars>>

(***************************************************************************)
(* Specifications                                                          *)
(***************************************************************************)
Init ==
  /\ ev_src = "none"
  /\ ev_value = 0
  /\ ev_result = None
  /\ v_pc = "unbuilt"
  /\ v_required = 0
  /\ v_stacks = FALSE
  /\ v_proof = None
  /\ v_policy = FALSE
  /\ v_result = None
  /\ pc = "idle"
  /\ steps = <<>>
  /\ account_id = Unset
  /\ tx_inputs = Unset
  /\ program = Unset
  /\ vm_storage = Unset
  /\ vm_ops = 0
  /\ vault = Unset
  /\ stack_outputs = Unset
  /\ tx_outputs = Unset
  /\ storage_delta = Unset
  /\ nonce_delta = Unset
  /\ outcome = Unset

NextEvents == EmitEvent \/ EmitRaw \/ DecodeEvent

NextVerifier == VerifierNew \/ BuildStacks \/ VerifyProof \/ CheckSecurityLevel \/ VerifyAgain

Next ==
  \/ ExecuteTransaction
  \/ FetchTransactionInputs
  \/ CompileTransaction
  \/ StartVm
  \/ VmSetItem
  \/ VmAddAsset
  \/ VmRemoveAsset
  \/ VmFault
  \/ VmFinish
  \/ ParseTransactionOutputs
  \/ CheckAccountId
  \/ ExtractStorageDelta
  \/ BuildAccountDelta

SpecEvents == Init /\ [][NextEvents]_vars

SpecVerifier == Init /\ [][NextVerifier]_vars

Spec == Init /\ [][Next]_vars

(***************************************************************************)
(* Properties                                                              *)
(***************************************************************************)
Range(seq) == {seq[k] : k \in 1..Len(seq)}

Last(seq) == seq[Len(seq)]

InitialAccount == tx_inputs.account

FinalAccount == tx_outputs.account

\* C1: when the parsed final account stub's id differs from the initial account's
\* id, the id check ends the call with InconsistentAccountId carrying the initial
\* id as input_id and the final id as output_id; the storage delta, the nonce
\* delta and the account delta are not reached and no ExecutedTransaction exists.
C1_InconsistentAccountId ==
  (tx_outputs # Unset /\ InitialAccount.id # FinalAccount.id /\ pc # "check_id") =>
    /\ pc = "done"
    /\ outcome = Err("InconsistentAccountId",
                     [input_id |-> InitialAccount.id, output_id |-> FinalAccount.id])
    /\ storage_delta = Unset
    /\ nonce_delta = Unset
    /\ "extract" \notin Range(steps)
    /\ "delta" \notin Range(steps)

C1_Witness ==
  /\ pc = "done"
  /\ tx_outputs # Unset
  /\ InitialAccount.id = "acct1"
  /\ FinalAccount.id = "acct2"
  /\ outcome.tag = "Err"
  /\ outcome.kind = "InconsistentAccountId"

\* C2: when proof verification succeeds with level s and the verifier requires r,
\* verify fails with InsufficientProofSecurityLevel(s, r) if s < r and succeeds
\* if s >= r.
C2_SecurityLevelPolicy ==
  (v_result # None /\ v_proof # None /\ v_proof.val.tag = "Ok") =>
    LET s == v_proof.val.val
        r == v_required
    IN /\ s < r => v_result = Some(Err("InsufficientProofSecurityLevel", <<s, r>>))
       /\ s >= r => v_result = Some(Ok("unit"))

C2_Witness ==
  /\ v_pc = "returned"
  /\ v_proof = Some(Ok(1))
  /\ v_required = 2
  /\ v_result = Some(Err("InsufficientProofSecurityLevel", <<1, 2>>))

\* C3: the policy check is evaluated only after the proof was accepted and is
\* never skipped; a rejected proof always ends verify with
\* TransactionVerificationFailed(inner), whatever the required level; success
\* needs both the proof check and the policy check to pass.
C3_PolicyAfterProof ==
  /\ (v_proof # None /\ v_proof.val.tag = "Err") =>
       /\ v_result = Some(Err("TransactionVerificationFailed", v_proof.val.data))
       /\ ~v_policy
  /\ v_policy => (v_proof # None /\ v_proof.val.tag = "Ok")
  /\ (v_result # None /\ v_proof # None /\ v_proof.val.tag = "Ok") => v_policy
  /\ v_result = Some(Ok("unit")) =>
       /\ v_stacks
       /\ v_policy
       /\ v_proof.val.tag = "Ok"
       /\ v_proof.val.val >= v_required

C3_Witness ==
  /\ v_pc = "returned"
  /\ v_required = 0
  /\ v_proof # None
  /\ v_proof.val.tag = "Err"
  /\ v_result = Some(Err("TransactionVerificationFailed", "ProgramVerificationError"))

ExecutorErrorKinds ==
  {"FetchAccountCodeFailed", "FetchTransactionInputsFailed", "LoadAccountFailed",
   "CompileNoteScriptFailed", "CompileTransactionScriptFailed", "CompileTransactionFiled",
   "ExecuteTransactionProgramFailed", "InvalidTransactionOutput", "InconsistentAccountId"}

\* C4: every call of execute_transaction ends with an ExecutedTransaction or with
\* an error value of the executor's error taxonomy; a rejected account delta is
\* returned as such an error too.
C4_EveryFailureIsAnError ==
  pc = "done" =>
    \/ outcome.tag = "Ok"
    \/ outcome.tag = "Err" /\ outcome.kind \in ExecutorErrorKinds

\* applying a storage delta to a storage: clear, then update
ApplyDelta(storage, delta) ==
  LET cleared == [i \in SlotSample |->
                    IF i \in delta.cleared_items THEN EmptyWord ELSE storage[i]]
  IN [i \in SlotSample |->
        IF \E p \in delta.updated_items : p[1] = i
          THEN (CHOOSE p \in delta.updated_items : p[1] = i)[2]
          ELSE cleared[i]]

\* C5: applying the extracted storage delta (cleared slots reset to the empty
\* word, then updated slots set) to the initial storage gives the final storage
\* root, which is the root of the storage the run's slot writes produced; every
\* changed tree index is present as an 8-bit slot index.
C5_StorageDeltaRoundTrip ==
  storage_delta # Unset =>
    /\ Root(ApplyDelta(InitialAccount.storage, storage_delta)) = FinalAccount.storage_root
    /\ FinalAccount.storage_root = Root(vm_storage)
    /\ \A i \in SlotSample :
         InitialAccount.storage[i] # vm_storage[i] =>
           i \in storage_delta.cleared_items \cup {p[1] : p \in storage_delta.updated_items}

C5_Witness ==
  /\ storage_delta # Unset
  /\ vm_ops = 2
  /\ storage_delta.cleared_items = {255}
  /\ storage_delta.updated_items = {<<127, "v2">>}
  /\ InitialAccount.storage[127] = "v1"

\* cleared and updated slots of a storage delta do not meet
Disjoint(delta) == delta.cleared_items \cap {p[1] : p \in delta.updated_items} = {}

\* C6: the extracted storage delta never lists a slot as both cleared and
\* updated, the account delta of a returned ExecutedTransaction is disjoint, and
\* a delta with an overlap never yields an ExecutedTransaction.
C6_ClearedUpdatedDisjoint ==
  /\ storage_delta # Unset => Disjoint(storage_delta)
  /\ outcome.tag = "Ok" => Disjoint(outcome.val.account_delta.storage)
  /\ (storage_delta # Unset /\ ~Disjoint(storage_delta)) => outcome.tag # "Ok"

C6_Witness ==
  /\ outcome.tag = "Ok"
  /\ outcome.val.account_delta.storage.cleared_items = {127}
  /\ outcome.val.account_delta.storage.updated_items = {<<255, "v1">>}

\* C7: in a returned ExecutedTransaction the nonce delta is None exactly when the
\* initial and final nonces are equal, and otherwise is Some(final nonce).
C7_NonceDelta ==
  outcome.tag = "Ok" =>
    LET d == outcome.val.account_delta.nonce
    IN /\ d = None <=> InitialAccount.nonce = FinalAccount.nonce
       /\ InitialAccount.nonce # FinalAccount.nonce => d = Some(FinalAccount.nonce)

C7_Witness ==
  /\ outcome.tag = "Ok"
  /\ InitialAccount.nonce = 1
  /\ FinalAccount.nonce = 2
  /\ outcome.val.account_delta.nonce = Some(2)

\* C8: decoding v fails with NotTransactionEvent(v) when v >> 16 # 2, and with
\* InvalidTransactionEvent(v) when v >> 16 = 2 and v & 0xFFFF is none of 0, 1, 2;
\* InvalidTransactionEvent is never returned for a value whose upper half is not 2.
C8_DecodeClassifies ==
  ev_result # None =>
    LET v == ev_value
        r == ev_result.val
    IN /\ v \div 65536 # 2 => r = Err("NotTransactionEvent", v)
       /\ (v \div 65536 = 2 /\ v % 65536 \notin {0, 1, 2}) =>
            r = Err("InvalidTransactionEvent", v)
       /\ (r.tag = "Err" /\ r.kind = "InvalidTransactionEvent") => v \div 65536 = 2

C8_Witness ==
  /\ ev_value = 3 * 65536 + 1
  /\ ev_result = Some(Err("NotTransactionEvent", 196609))

\* C9: decoding the code of each of the three events gives that event back; the
\* codes are pairwise distinct, their upper 16 bits are 2 and their lower 16 bits
\* are 0, 1 and 2.
C9_DecodeInvertsEncode ==
  /\ (ev_src \in TransactionEvents /\ ev_result # None) => ev_result.val = Ok(ev_src)
  /\ ev_src \in TransactionEvents => ev_value \div 65536 = 2
  /\ ev_src = "AddAssetToAccountVault" => ev_value % 65536 = 0
  /\ ev_src = "RemoveAssetFromAccountVault" => ev_value % 65536 = 1
  /\ ev_src = "PushAccountProcedureIndex" => ev_value % 65536 = 2

C9_Witness ==
  /\ ev_src = "PushAccountProcedureIndex"
  /\ ev_result = Some(Ok("PushAccountProcedureIndex"))

\* the order of the steps of execute_transaction
StepOrder == <<"fetch", "compile", "vm", "parse", "check_id", "extract", "delta">>

\* the error of the call is that of step s, the last step performed
FailedAt(s, kind) ==
  /\ pc = "done"
  /\ outcome.tag = "Err"
  /\ outcome.kind = kind
  /\ Last(steps) = s

\* C10: the steps run in the order fetch, compile, VM, parse, id check, storage
\* delta, each at most once; the first failing step ends the call with its own
\* error kind, and no step is performed after a failure.
C10_FirstFailureStops ==
  /\ Len(steps) <= Len(StepOrder)
  /\ \A k \in 1..Len(steps) : steps[k] = StepOrder[k]
  /\ outcome.tag = "Err" => pc = "done"
  /\ ("fetch" \in Range(steps) /\ tx_inputs = Unset) =>
       FailedAt("fetch", "FetchTransactionInputsFailed")
  /\ ("compile" \in Range(steps) /\ program = Unset) =>
       FailedAt("compile", "CompileTransactionFiled")
  /\ ("vm" \in Range(steps) /\ pc # "vm" /\ stack_outputs = Unset) =>
       FailedAt("vm", "ExecuteTransactionProgramFailed")
  /\ ("parse" \in Range(steps) /\ tx_outputs = Unset) =>
       FailedAt("parse", "InvalidTransactionOutput")
  /\ ("check_id" \in Range(steps) /\ InitialAccount.id # FinalAccount.id) =>
       FailedAt("check_id", "InconsistentAccountId")
  /\ ("extract" \in Range(steps) /\ storage_delta = Unset) =>
       FailedAt("extract", "InvalidTransactionOutput")
  /\ outcome.tag = "Ok" => steps = StepOrder

C10_Witness ==
  /\ pc = "done"
  /\ steps = <<"fetch", "compile", "vm", "parse", "check_id", "extract">>
  /\ outcome.tag = "Err"
  /\ outcome.kind = "InvalidTransactionOutput"

====
